---------------------------- MODULE Spec2Model ----------------------------
(***************************************************************************)
(* Model of the ambiguity-resolution core of the Power BI bookmark          *)
(* generator: the fuzzy chart matcher (bookmark_2.py: norm,                 *)
(* smart_match_chart), the field role engine (calendar_generate.py:         *)
(* FieldRoleEngine) and the bookmark and button steps of the report         *)
(* builder (bookmark_2.py: create_powerbi_report).                          *)
(*                                                                          *)
(* Python strings are sequences of one-character strings, so that           *)
(* lowercasing, stripping, regular-expression filtering and substring       *)
(* tests are computed character by character, as the code computes them.    *)
(* JSON / Python values are records [t, s]: t is the Python type and s the  *)
(* characters of a str (or the items of a list).                            *)
(***************************************************************************)
EXTENDS Integers, Sequences, FiniteSets, TLC

VARIABLES
    \* ---- smart_match_chart (bookmark_2.py) ----
    target_name,        \* argument: a str value or None
    available_visuals,  \* argument: sequence of visuals [title, source]
    target_norm,        \* local
    vi,                 \* position of the outer loop (index of `visual`)
    ai,                 \* position of the inner loop (1: title, 2: source)
    best_score,         \* local
    best_match,         \* local: index of the visual in the pool, 0 for None
    match_result,       \* returned value: index of the visual, 0 for None
    mpc,                \* position in smart_match_chart
    \* ---- FieldRoleEngine (calendar_generate.py) ----
    all_fields,         \* self.all_fields: ordered dict, sequence of [name, table]
    schema_data,        \* self.schema_data: table -> sequence of [name, type]
    hierarchy,          \* self.calendar_visual["Hierarchy"]: sequence of str
    gemini_response,    \* what the classifier call produces
    schema_roles,       \* local of detect_roles
    cardinality_roles,  \* local of detect_roles
    gemini_roles,       \* local of detect_roles
    roles,              \* merged_roles / final_roles (one dict, mutated in place)
    roles_in,           \* the argument of _apply_fallback_logic, as passed
    used_fields,        \* local of _apply_fallback_logic
    field_mappings,     \* returned value of detect_roles
    pc,                 \* position in detect_roles
    \* ---- create_powerbi_report (bookmark_2.py) ----
    visuals_data,       \* sequence of visuals [name, title, source, config]
    bookmark_metadata,  \* sequence of [bookmark_name, zone_charts, matched_visuals]
    all_visuals_on_page,\* the visuals of the page, one per name
    bookmarks,          \* sequence of [displayName, name, visualContainers]
    bookmark_guid_map,  \* dict: bookmark name -> GUID
    buttons,            \* the action buttons, [name, text, bookmark]
    guid_count,         \* number of GUIDs gen_guid has handed out
    ri,                 \* position of the loop over bookmark_metadata
    rpc                 \* position in create_powerbi_report

mvars == <<target_name, available_visuals, target_norm, vi, ai, best_score,
           best_match, match_result, mpc>>
rvars == <<all_fields, schema_data, hierarchy, gemini_response, schema_roles,
           cardinality_roles, gemini_roles, roles, roles_in,
           used_fields, field_mappings, pc>>
bvars == <<visuals_data, bookmark_metadata, all_visuals_on_page, bookmarks,
           bookmark_guid_map, buttons, guid_count, ri, rpc>>
vars == <<mvars, rvars, bvars>>

-----------------------------------------------------------------------------
(* Bounds of the model *)

\* longest pool of visuals handed to smart_match_chart
MaxPool == 2
\* most fields in the calendar visual
MaxFields == 3
\* most roles preset in the partial assignment handed to the fallback
MaxAssigned == 2
\* number of filler characters of the long sample attribute
PadLen == 32
\* most entries of bookmark_metadata
MaxBookmarks == 2

-----------------------------------------------------------------------------
(* Python values *)

Str(s) == [t |-> "str", s |-> s]
NoneVal == [t |-> "none", s |-> <<>>]
NumVal == [t |-> "num", s |-> <<"7">>]
ListVal(items) == [t |-> "list", s |-> items]
\* a key that the dict does not hold
Absent == [t |-> "absent", s |-> <<>>]

\* dict.get(key, default)
Get(v, default) == IF v.t = "absent" THEN default ELSE v

\* truth value of a Python object (`if x`, `not x`)
Truthy(v) ==
    CASE v.t = "str" -> v.s # <<>>
      [] v.t = "list" -> v.s # <<>>
      [] v.t = "num" -> TRUE
      [] OTHER -> FALSE

\* whether hash(v) succeeds (`v in some_dict`)
Hashable(v) == v.t # "list"

-----------------------------------------------------------------------------
(* Python str operations, on sequences of characters *)

UpperLetters == <<"A","B","C","D","E","F","G","H","I","J","K","L","M",
                  "N","O","P","Q","R","S","T","U","V","W","X","Y","Z">>
LowerLetters == <<"a","b","c","d","e","f","g","h","i","j","k","l","m",
                  "n","o","p","q","r","s","t","u","v","w","x","y","z">>
Digits == {"0","1","2","3","4","5","6","7","8","9"}
Whitespace == {" "}

Range(f) == {f[i] : i \in DOMAIN f}

\* the lowercase letter of each uppercase letter
LowerOf ==
    [c \in Range(UpperLetters) |->
        LowerLetters[CHOOSE i \in DOMAIN UpperLetters : UpperLetters[i] = c]]

LowerChar(c) == IF c \in DOMAIN LowerOf THEN LowerOf[c] ELSE c

UpperChar(c) ==
    IF \E i \in DOMAIN LowerLetters : LowerLetters[i] = c
    THEN UpperLetters[CHOOSE i \in DOMAIN LowerLetters : LowerLetters[i] = c]
    ELSE c

\* str.lower()
Lower(s) == [i \in DOMAIN s |-> LowerChar(s[i])]

\* str.capitalize()
Capitalize(s) ==
    [i \in DOMAIN s |-> IF i = 1 THEN UpperChar(s[i]) ELSE LowerChar(s[i])]

\* str.strip()
Strip(s) ==
    LET keep == {i \in DOMAIN s : s[i] \notin Whitespace}
    IN  IF keep = {} THEN <<>>
        ELSE LET lo == CHOOSE i \in keep : \A j \in keep : i <= j
                 hi == CHOOSE i \in keep : \A j \in keep : j <= i
             IN  SubSeq(s, lo, hi)

\* the character class [a-z0-9]
AlnumChars == Range(LowerLetters) \cup Digits

\* re.sub(r'[^a-z0-9]', '', s)
RECURSIVE KeepAlnum(_)
KeepAlnum(s) ==
    IF s = <<>> THEN <<>>
    ELSE IF Head(s) \in AlnumChars
         THEN <<Head(s)>> \o KeepAlnum(Tail(s))
         ELSE KeepAlnum(Tail(s))

\* `sub in s` for two str
Contains(sub, s) ==
    \E i \in 0..(Len(s) - Len(sub)) : SubSeq(s, i + 1, i + Len(sub)) = sub

\* set(s.split()): the maximal runs of non-whitespace characters of s
Words(s) ==
    LET starts == {i \in DOMAIN s :
                    /\ s[i] \notin Whitespace
                    /\ (i = 1 \/ s[i - 1] \in Whitespace)}
        ends(i) == {j \in i..Len(s) : j = Len(s) \/ s[j + 1] \in Whitespace}
        EndOf(i) == CHOOSE j \in ends(i) : \A k \in ends(i) : j <= k
    IN  {SubSeq(s, i, EndOf(i)) : i \in starts}

-----------------------------------------------------------------------------
(* bookmark_2.py: norm and the scoring of smart_match_chart *)

\* faulty variant of norm: only the first separator is removed
\* (re.sub with count=1)
normFirstOnly(text) ==
    IF ~Truthy(text) THEN <<>>
    ELSE LET low == Lower(Strip(text.s))
             bad == {i \in DOMAIN low :
                        low[i] \notin AlnumChars}
         IN  IF bad = {} THEN low
             ELSE LET m == CHOOSE i \in bad : \A j \in bad : i <= j
                  IN  SubSeq(low, 1, m - 1) \o SubSeq(low, m + 1, Len(low))

\* norm(text): "" for a falsy text, else the lowercase alphanumerics
norm(text) ==
    IF ~Truthy(text) THEN <<>>
    ELSE KeepAlnum(Lower(Strip(text.s)))

\* the confidence a match needs
Threshold == 50

\* faulty variant of Score: the exact-match branch is missing
ScoreNoExact(tnorm, cnorm) ==
    IF Contains(tnorm, cnorm) THEN 80 - (Len(cnorm) - Len(tnorm))
    ELSE IF Contains(cnorm, tnorm) THEN 60
    ELSE 0

\* faulty variant of Score: the containment score ignores the lengths
ScoreFlatContainment(tnorm, cnorm) ==
    IF tnorm = cnorm THEN 100
    ELSE IF Contains(tnorm, cnorm) THEN 80
    ELSE IF Contains(cnorm, tnorm) THEN 60
    ELSE LET common == Words(tnorm) \cap Words(cnorm)
         IN  IF common # {} THEN 40 + (Cardinality(common) * 10) ELSE 0

\* faulty variant of Score: the reverse-containment score loses a point for
\* each character the attribute lacks
ScoreReverseByLength(tnorm, cnorm) ==
    IF tnorm = cnorm THEN 100
    ELSE IF Contains(tnorm, cnorm) THEN 80 - (Len(cnorm) - Len(tnorm))
    ELSE IF Contains(cnorm, tnorm) THEN 60 - (Len(tnorm) - Len(cnorm))
    ELSE LET common == Words(tnorm) \cap Words(cnorm)
         IN  IF common # {} THEN 40 + (Cardinality(common) * 10) ELSE 0

\* faulty variant of Score: the reverse-containment branch is missing
ScoreNoReverse(tnorm, cnorm) ==
    IF tnorm = cnorm THEN 100
    ELSE IF Contains(tnorm, cnorm) THEN 80 - (Len(cnorm) - Len(tnorm))
    ELSE LET common == Words(tnorm) \cap Words(cnorm)
         IN  IF common # {} THEN 40 + (Cardinality(common) * 10) ELSE 0

\* faulty variant of Score: the containment score starts above the exact one
ScoreContainmentOverExact(tnorm, cnorm) ==
    IF tnorm = cnorm THEN 100
    ELSE IF Contains(tnorm, cnorm) THEN 180 - (Len(cnorm) - Len(tnorm))
    ELSE IF Contains(cnorm, tnorm) THEN 60
    ELSE LET common == Words(tnorm) \cap Words(cnorm)
         IN  IF common # {} THEN 40 + (Cardinality(common) * 10) ELSE 0

\* the score of one candidate attribute, lines 53-71
Score(tnorm, cnorm) ==
    IF tnorm = cnorm THEN 100
    ELSE IF Contains(tnorm, cnorm) THEN 80 - (Len(cnorm) - Len(tnorm))
    ELSE IF Contains(cnorm, tnorm) THEN 60
    ELSE LET common == Words(tnorm) \cap Words(cnorm)
         IN  IF common # {} THEN 40 + (Cardinality(common) * 10) ELSE 0

\* faulty variant of TargetMissing: the guard is missing
TargetMissingNever(target) == FALSE

\* `if not target_name`, line 37
TargetMissing(target) == ~Truthy(target)

\* [title, source] of a visual, lines 45-48
Candidates(visual) ==
    <<Get(visual.title, Str(<<>>)), Get(visual.source, Str(<<>>))>>

\* faulty variant of Improves: an equal score replaces the best
ImprovesOrTies(score, best) == score >= best

\* `if score > best_score`, line 73
Improves(score, best) == score > best

\* faulty variant of ReturnValue: the confidence test is missing
ReturnValueNoGate(score, match) == match

\* lines 78-80: the visual, or None (0)
ReturnValue(score, match) == IF score >= Threshold THEN match ELSE 0

-----------------------------------------------------------------------------
(* Sample inputs of smart_match_chart *)

Pad(n) == [i \in 1..n |-> "x"]

TargetSamples ==
    { NoneVal,
      Str(<<>>),
      Str(<<"-">>),
      Str(<<"A"," ","b">>),
      Str(<<"S","a","l","e","s"," ","b","y"," ","R","e","g","i","o","n">>) }

TitleSamples ==
    { Absent,
      Str(<<>>),
      Str(<<"-">>),
      Str(<<"a","b">>),
      Str(<<"a","b","c">>),
      Str(<<"a">>),
      Str(<<"b"," ","c">>),
      Str(<<"a","b">> \o Pad(PadLen)),
      Str(<<"S","a","l","e","s"," ","b","y"," ","R","e","g","i","o","n",
            " ","(","2","0","2","4",")">>),
      Str(<<"R","e","g","i","o","n">>),
      NumVal }

SourceSamples == { Absent, Str(<<"A","B">>) }

VisualSamples ==
    {[title |-> t, source |-> s] : t \in TitleSamples, s \in SourceSamples}

Pools == UNION {[1..n -> VisualSamples] : n \in 0..MaxPool}

-----------------------------------------------------------------------------
(* smart_match_chart, step by step *)

\* smart_match_chart is not running
MatchIdle ==
    /\ target_name = NoneVal /\ available_visuals = <<>>
    /\ target_norm = <<>> /\ vi = 0 /\ ai = 0
    /\ best_score = 0 /\ best_match = 0 /\ match_result = 0
    /\ mpc = "idle"

\* lines 37-42: the guard on the target and the initialisation
MatchEnter ==
    /\ mpc = "start"
    /\ IF TargetMissing(target_name)
       THEN /\ mpc' = "done"
            /\ match_result' = 0
            /\ UNCHANGED <<target_norm, vi, ai, best_score, best_match>>
       ELSE /\ target_norm' = norm(target_name)
            /\ best_match' = 0
            /\ best_score' = 0
            /\ vi' = 1 /\ ai' = 1
            /\ mpc' = "loop"
            /\ UNCHANGED match_result
    /\ UNCHANGED <<target_name, available_visuals, rvars, bvars>>

\* lines 44-75: one iteration of the inner loop, on candidate ai of visual vi
MatchCandidate ==
    /\ mpc = "loop"
    /\ vi <= Len(available_visuals)
    /\ LET candidate == Candidates(available_visuals[vi])[ai]
       IN  IF ~Truthy(candidate)
           THEN \* `continue`
                /\ UNCHANGED <<best_score, best_match, mpc>>
                /\ vi' = IF ai = 2 THEN vi + 1 ELSE vi
                /\ ai' = IF ai = 2 THEN 1 ELSE 2
           ELSE IF candidate.t # "str"
           THEN \* norm calls text.strip() on a value that has none
                /\ mpc' = "raised"
                /\ UNCHANGED <<best_score, best_match, vi, ai>>
           ELSE LET score == Score(target_norm, norm(candidate))
                IN  /\ best_score' = IF Improves(score, best_score)
                                     THEN score ELSE best_score
                    /\ best_match' = IF Improves(score, best_score)
                                     THEN vi ELSE best_match
                    /\ vi' = IF ai = 2 THEN vi + 1 ELSE vi
                    /\ ai' = IF ai = 2 THEN 1 ELSE 2
                    /\ UNCHANGED mpc
    /\ UNCHANGED <<target_name, available_visuals, target_norm, match_result,
                   rvars, bvars>>

\* lines 77-80
MatchReturn ==
    /\ mpc = "loop"
    /\ vi > Len(available_visuals)
    /\ match_result' = ReturnValue(best_score, best_match)
    /\ mpc' = "done"
    /\ UNCHANGED <<target_name, available_visuals, target_norm, vi, ai,
                   best_score, best_match, rvars, bvars>>

-----------------------------------------------------------------------------
(* Python dicts: functions whose domain is the set of keys *)

EmptyDict == [k \in {} |-> <<>>]

Put(d, k, v) == [x \in (DOMAIN d) \cup {k} |-> IF x = k THEN v ELSE d[x]]

\* set(d.values())
Values(d) == {d[k] : k \in DOMAIN d}

Min(S) == CHOOSE x \in S : \A y \in S : x <= y

\* `any(pattern in text for pattern in patterns)`
ContainsAny(patterns, text) == \E p \in patterns : Contains(p, text)

-----------------------------------------------------------------------------
(* calendar_generate.py: the fields, the role names, the pattern lists *)

\* required_roles, line 363
RequiredRoles ==
    <<"date", "week_label", "category", "legend", "measure", "event_index",
      "event_group">>

RoleNames == Range(RequiredRoles)

\* list(self.all_fields.keys())
FieldNames(fields) == [i \in DOMAIN fields |-> fields[i].name]

\* `name in self.all_fields`
IsField(fields, name) == \E i \in DOMAIN fields : fields[i].name = name

\* self.all_fields[name]
TableOf(fields, name) ==
    fields[CHOOSE i \in DOMAIN fields : fields[i].name = name].table

\* line 169
DateTypes == { <<"d","a","t","e">>, <<"d","a","t","e","t","i","m","e">>,
               <<"t","i","m","e","s","t","a","m","p">> }
\* line 174
NumericTypes == { <<"i","n","t">>, <<"f","l","o","a","t">>,
                  <<"d","e","c","i","m","a","l">>, <<"n","u","m","b","e","r">>,
                  <<"n","u","m","e","r","i","c">> }
\* line 179
TextTypes == { <<"t","e","x","t">>, <<"s","t","r","i","n","g">>,
               <<"v","a","r","c","h","a","r">>, <<"c","h","a","r">> }
\* line 196
IndexNamePatterns == { <<"i","n","d","e","x">>, <<"i","d">>, <<"r","o","w">>,
                       <<"n","u","m","b","e","r">>, <<"#">> }
\* line 201
CategoryNamePatterns == { <<"t","y","p","e">>,
                          <<"c","a","t","e","g","o","r","y">>,
                          <<"g","r","o","u","p">>, <<"s","t","a","t","u","s">>,
                          <<"c","l","a","s","s">> }
\* line 206
WeekNamePatterns == { <<"w","e","e","k">>, <<"l","a","b","e","l">>,
                      <<"n","a","m","e">> }
\* line 313
FallbackDatePatterns == { <<"d","a","t","e">>, <<"d","t">>, <<"d","a","t","a">>,
                          <<"t","r","a","n","s","a","c","t","i","o","n">>,
                          <<"t","i","m","e">> }
\* line 322
FallbackIndexPatterns == { <<"i","n","d","e","x">>, <<"i","d">>, <<"r","o","w">>,
                           <<"#">>, <<"n","u","m">> }
\* line 331
FallbackWeekPatterns == { <<"w","e","e","k">>, <<"l","a","b","e","l">>,
                          <<"n","a","m","e">>, <<"s","t","a","t","u","s">> }

-----------------------------------------------------------------------------
(* _get_field_datatype and _analyze_schema_signals *)

\* lines 147-156: the lowercase declared type, or None
GetFieldDatatype(schema, field_name, table_name) ==
    IF table_name = <<>> \/ table_name \notin DOMAIN schema THEN NoneVal
    ELSE LET cols == schema[table_name]
             hits == {i \in DOMAIN cols :
                        Lower(Strip(Get(cols[i].name, Str(<<>>)).s))
                            = Lower(Strip(field_name))}
         IN  IF hits = {} THEN NoneVal
             ELSE Str(Lower(Get(cols[Min(hits)].type, Str(<<>>)).s))

\* the branch of lines 168-181 a datatype takes
SchemaClass(datatype) ==
    IF ~Truthy(datatype) THEN "none"
    ELSE IF ContainsAny(DateTypes, datatype.s) THEN "date"
    ELSE IF ContainsAny(NumericTypes, datatype.s) THEN "measure"
    ELSE IF ContainsAny(TextTypes, datatype.s) THEN "category"
    ELSE "none"

\* faulty variant of AnalyzeSchemaSignals: each role keeps the last field of
\* its class
AnalyzeSchemaSignalsLast(fields, schema) ==
    LET cls(i) == SchemaClass(GetFieldDatatype(schema, fields[i].name,
                                               fields[i].table))
        found == {cls(i) : i \in DOMAIN fields} \ {"none"}
        last(r) == CHOOSE i \in DOMAIN fields :
                      /\ cls(i) = r
                      /\ \A j \in DOMAIN fields : cls(j) = r => j <= i
    IN  [r \in found |-> fields[last(r)].name]

\* lines 158-183: each role keeps the first field of its class
AnalyzeSchemaSignals(fields, schema) ==
    LET cls(i) == SchemaClass(GetFieldDatatype(schema, fields[i].name,
                                               fields[i].table))
        found == {cls(i) : i \in DOMAIN fields} \ {"none"}
    IN  [r \in found |->
            fields[Min({i \in DOMAIN fields : cls(i) = r})].name]

-----------------------------------------------------------------------------
(* _analyze_cardinality_signals *)

\* faulty variant of CardinalityClass: the category patterns are tested first
CardinalityClassCategoryFirst(field_name) ==
    LET field_lower == Lower(field_name)
    IN  IF ContainsAny(CategoryNamePatterns, field_lower) THEN "category"
        ELSE IF ContainsAny(IndexNamePatterns, field_lower) THEN "event_index"
        ELSE IF ContainsAny(WeekNamePatterns, field_lower) THEN "week_label"
        ELSE "none"

\* the branch of lines 196-208 a field name takes
CardinalityClass(field_name) ==
    LET field_lower == Lower(field_name)
    IN  IF ContainsAny(IndexNamePatterns, field_lower) THEN "event_index"
        ELSE IF ContainsAny(CategoryNamePatterns, field_lower) THEN "category"
        ELSE IF ContainsAny(WeekNamePatterns, field_lower) THEN "week_label"
        ELSE "none"

\* lines 185-210
AnalyzeCardinalitySignals(fields) ==
    LET cls(i) == CardinalityClass(fields[i].name)
        found == {cls(i) : i \in DOMAIN fields} \ {"none"}
    IN  [r \in found |->
            fields[Min({i \in DOMAIN fields : cls(i) = r})].name]

-----------------------------------------------------------------------------
(* _ask_gemini_for_classification *)

\* lines 214-280: every exception of the call, of json.loads and of
\* gemini_roles.items() is caught and gives {}; a JSON object is returned as
\* it was parsed
AskGemini(response) ==
    IF response.kind = "object" THEN response.obj ELSE EmptyDict

-----------------------------------------------------------------------------
(* _merge_signals *)

\* line 288: `field in self.all_fields` hashes field
MergeRaises(g) == \E k \in DOMAIN g : Truthy(g[k]) /\ ~Hashable(g[k])

\* faulty variant of GeminiAccepted: the membership test is missing
GeminiAcceptedAnyName(g, fields) ==
    {k \in DOMAIN g : Truthy(g[k]) /\ g[k].t = "str"}

\* line 288: the classifier values that are kept
GeminiAccepted(g, fields) ==
    {k \in DOMAIN g : /\ Truthy(g[k])
                      /\ g[k].t = "str"
                      /\ IsField(fields, g[k].s)}

\* faulty variant of MergeLower: the later source overwrites
MergeLowerOverrides(final, source, fields) ==
    [r \in (DOMAIN final) \cup
           {k \in DOMAIN source : IsField(fields, source[k])} |->
        IF r \in DOMAIN source /\ IsField(fields, source[r])
        THEN source[r] ELSE final[r]]

\* lines 292-299: a lower-priority source fills only the roles still missing
MergeLower(final, source, fields) ==
    [r \in (DOMAIN final) \cup
           {k \in DOMAIN source : IsField(fields, source[k])} |->
        IF r \in DOMAIN final THEN final[r] ELSE source[r]]

\* lines 282-301
MergeSignals(s_roles, c_roles, g_roles, fields) ==
    LET p1 == [r \in GeminiAccepted(g_roles, fields) |-> g_roles[r].s]
        p2 == MergeLower(p1, s_roles, fields)
    IN  MergeLower(p2, c_roles, fields)

-----------------------------------------------------------------------------
(* _apply_fallback_logic, one operator per step; each takes and returns the *)
(* pair st = [roles, used] of the dict and the used_fields set              *)

\* `role not in roles or not roles[role]`
Unfilled(r, role) == role \notin DOMAIN r \/ r[role] = <<>>

\* faulty variant of FirstUnusedMatching: used fields are not skipped
FirstMatchingIgnoringUsed(names, patterns, used) ==
    LET hits == {i \in DOMAIN names : ContainsAny(patterns, Lower(names[i]))}
    IN  IF hits = {} THEN 0 ELSE CHOOSE i \in hits : \A j \in hits : i <= j

\* the loops of lines 312-317, 321-326, 330-335: the first field, in order,
\* whose lowercase name holds a pattern and that is not used; 0 if none
FirstUnusedMatching(names, patterns, used) ==
    LET hits == {i \in DOMAIN names :
                    /\ ContainsAny(patterns, Lower(names[i]))
                    /\ names[i] \notin used}
    IN  IF hits = {} THEN 0 ELSE Min(hits)

\* faulty variant of FirstUnused: used fields are not skipped
FirstUnusedIgnoringUsed(names, used) == IF names = <<>> THEN 0 ELSE 1

\* faulty variant of FirstUnused: the last field that is not used
FirstUnusedLast(names, used) ==
    LET hits == {i \in DOMAIN names : names[i] \notin used}
    IN  IF hits = {} THEN 0 ELSE CHOOSE i \in hits : \A j \in hits : j <= i

\* the loop of lines 339-343: the first field that is not used; 0 if none
FirstUnused(names, used) ==
    LET hits == {i \in DOMAIN names : names[i] \notin used}
    IN  IF hits = {} THEN 0 ELSE Min(hits)

\* the body shared by lines 311-335
FillByPattern(st, names, role, patterns) ==
    LET i == FirstUnusedMatching(names, patterns, st.used)
    IN  IF Unfilled(st.roles, role) /\ i # 0
        THEN [roles |-> Put(st.roles, role, names[i]),
              used |-> st.used \cup {names[i]}]
        ELSE st

\* lines 310-317
FallbackDate(st, names) == FillByPattern(st, names, "date", FallbackDatePatterns)

\* lines 319-326
FallbackIndex(st, names) ==
    FillByPattern(st, names, "event_index", FallbackIndexPatterns)

\* lines 328-335
FallbackWeek(st, names) ==
    FillByPattern(st, names, "week_label", FallbackWeekPatterns)

\* lines 337-343
FallbackCategory(st, names) ==
    LET i == FirstUnused(names, st.used)
    IN  IF Unfilled(st.roles, "category") /\ i # 0
        THEN [roles |-> Put(st.roles, "category", names[i]),
              used |-> st.used \cup {names[i]}]
        ELSE st

\* faulty variant of FallbackLegend: legend is set whether or not it is filled
FallbackLegendAlways(st, names) ==
    IF "week_label" \in DOMAIN st.roles
    THEN [st EXCEPT !.roles = Put(@, "legend", st.roles["week_label"])]
    ELSE IF "category" \in DOMAIN st.roles
    THEN [st EXCEPT !.roles = Put(@, "legend", st.roles["category"])]
    ELSE st

\* lines 345-350
FallbackLegend(st, names) ==
    IF Unfilled(st.roles, "legend")
    THEN IF "week_label" \in DOMAIN st.roles
         THEN [st EXCEPT !.roles = Put(@, "legend", st.roles["week_label"])]
         ELSE IF "category" \in DOMAIN st.roles
         THEN [st EXCEPT !.roles = Put(@, "legend", st.roles["category"])]
         ELSE st
    ELSE st

\* lines 352-355
FallbackMeasure(st, names) ==
    IF Unfilled(st.roles, "measure") /\ "event_index" \in DOMAIN st.roles
    THEN [st EXCEPT !.roles = Put(@, "measure", st.roles["event_index"])]
    ELSE st

\* lines 357-360
FallbackGroup(st, names) ==
    IF Unfilled(st.roles, "event_group") /\ "date" \in DOMAIN st.roles
    THEN [st EXCEPT !.roles = Put(@, "event_group", st.roles["date"])]
    ELSE st

\* faulty variant of FallbackUltimate: only the missing keys are filled
FallbackUltimateAbsentOnly(st, names) ==
    IF names = <<>> THEN st
    ELSE [st EXCEPT !.roles =
            [r \in (DOMAIN st.roles) \cup RoleNames |->
                IF r \notin DOMAIN st.roles THEN names[1] ELSE st.roles[r]]]

\* faulty variant of FallbackUltimate: the roles take the last field
FallbackUltimateLastField(st, names) ==
    IF names = <<>> THEN st
    ELSE [st EXCEPT !.roles =
            [r \in (DOMAIN st.roles) \cup RoleNames |->
                IF r \in RoleNames /\ Unfilled(st.roles, r)
                THEN names[Len(names)] ELSE st.roles[r]]]

\* lines 362-368: every role still unfilled takes the first field, if any
FallbackUltimate(st, names) ==
    IF names = <<>> THEN st
    ELSE [st EXCEPT !.roles =
            [r \in (DOMAIN st.roles) \cup RoleNames |->
                IF r \in RoleNames /\ Unfilled(st.roles, r)
                THEN names[1] ELSE st.roles[r]]]

\* lines 303-370, whole
ApplyFallbackLogic(r, names) ==
    LET s0 == [roles |-> r, used |-> Values(r)]
        s1 == FallbackDate(s0, names)
        s2 == FallbackIndex(s1, names)
        s3 == FallbackWeek(s2, names)
        s4 == FallbackCategory(s3, names)
        s5 == FallbackLegend(s4, names)
        s6 == FallbackMeasure(s5, names)
        s7 == FallbackGroup(s6, names)
    IN  FallbackUltimate(s7, names).roles

-----------------------------------------------------------------------------
(* detect_roles: the hierarchy level and the projection *)

\* the alternatives of the regular expression of line 409, in its order
HierarchyKeywords ==
    << <<"Q","u","a","r","t","e","r">>, <<"M","o","n","t","h">>,
       <<"Y","e","a","r">>, <<"W","e","e","k">>,
       <<"W","e","e","k","d","a","y">> >>

\* whether the keyword matches at position p of the hint, ignoring case
KeywordAt(hint, p, kw) ==
    /\ p + Len(kw) - 1 <= Len(hint)
    /\ \A i \in 1..Len(kw) : LowerChar(hint[p + i - 1]) = LowerChar(kw[i])

\* the positions of the hint where some alternative matches
KeywordPositions(hint) ==
    {p \in DOMAIN hint :
        \E k \in DOMAIN HierarchyKeywords :
            KeywordAt(hint, p, HierarchyKeywords[k])}

\* re.search(...).group(1): leftmost position, first alternative matching there
HierarchyGroup(hint) ==
    LET p == Min(KeywordPositions(hint))
        k == Min({j \in DOMAIN HierarchyKeywords :
                    KeywordAt(hint, p, HierarchyKeywords[j])})
    IN  SubSeq(hint, p, p + Len(HierarchyKeywords[k]) - 1)

\* lines 405-412
HierarchyType(hints) ==
    LET hits == {i \in DOMAIN hints : KeywordPositions(hints[i]) # {}}
    IN  IF hits = {} THEN <<"Q","u","a","r","t","e","r">>
        ELSE Capitalize(HierarchyGroup(hints[Min(hits)]))

\* ('Unknown.Unknown', 'Unknown'), lines 433-437
UnknownRef ==
    << <<"U","n","k","n","o","w","n",".","U","n","k","n","o","w","n">>,
       <<"U","n","k","n","o","w","n">> >>

\* faulty variant of QueryRef: event_group gets the plain reference too
QueryRefPlain(role, table_name, field_name, hierarchy_type) ==
    table_name \o <<".">> \o field_name

\* lines 423-427
QueryRef(role, table_name, field_name, hierarchy_type) ==
    IF role = "event_group"
    THEN table_name \o <<".">> \o field_name
         \o <<".","V","a","r","i","a","t","i","o","n",".","D","a","t","e"," ",
              "H","i","e","r","a","r","c","h","y",".">> \o hierarchy_type
    ELSE table_name \o <<".">> \o field_name

\* lines 415-429: `result`
ProjectRoles(final_roles, fields, hierarchy_type) ==
    [r \in {k \in DOMAIN final_roles :
                final_roles[k] # <<>> /\ IsField(fields, final_roles[k])} |->
        << QueryRef(r, TableOf(fields, final_roles[r]), final_roles[r],
                    hierarchy_type),
           TableOf(fields, final_roles[r]) >>]

\* result.get(a, result.get(b, default))
Get2(result, a, b) ==
    IF a \in DOMAIN result THEN result[a]
    ELSE IF b \in DOMAIN result THEN result[b]
    ELSE UnknownRef

\* lines 432-439
FieldMappings(result, hierarchy_type) ==
    [events |-> Get2(result, "event_index", "category"),
     event_group |-> Get2(result, "event_group", "date"),
     cell_color |-> Get2(result, "week_label", "legend"),
     start_date |-> Get2(result, "date", "date"),
     end_date |-> Get2(result, "date", "date"),
     hierarchy_type |-> hierarchy_type]

NoMappings == [k \in {} |-> UnknownRef]

-----------------------------------------------------------------------------
(* Sample inputs of the role engine *)

SalesTable == <<"S","a","l","e","s","T","a","b","l","e">>
DimTable == <<"D","i","m">>
Txn_Date == <<"T","x","n","_","D","a","t","e">>
Row_Id == <<"R","o","w","_","I","d">>
Region == <<"R","e","g","i","o","n">>
Status == <<"S","t","a","t","u","s">>

FieldUniverse ==
    { [name |-> Txn_Date, table |-> SalesTable],
      [name |-> Row_Id, table |-> SalesTable],
      [name |-> Region, table |-> SalesTable],
      [name |-> Status, table |-> DimTable] }

NameUniverse == {f.name : f \in FieldUniverse}

\* the ordered dicts all_fields can be: no name twice
FieldLists ==
    UNION { {fs \in [1..n -> FieldUniverse] :
                \A i, j \in 1..n : fs[i] = fs[j] => i = j} :
            n \in 0..MaxFields }

SchemaSamples ==
    { EmptyDict,
      [tb \in {SalesTable} |->
        << [name |-> Str(<<"t","x","n","_","d","a","t","e">>),
            type |-> Str(<<"D","a","t","e","T","i","m","e">>)],
           [name |-> Str(Row_Id),
            type |-> Str(<<"I","n","t","e","g","e","r">>)],
           [name |-> Str(Region),
            type |-> Str(<<"V","A","R","C","H","A","R">>)] >>],
      [tb \in {SalesTable} |->
        << [name |-> Str(Txn_Date),
            type |-> Str(<<"S","t","r","i","n","g">>)],
           [name |-> Str(Row_Id), type |-> Absent],
           [name |-> Str(Region),
            type |-> Str(<<"b","o","o","l">>)] >>] }

HierarchySamples ==
    { <<>>,
      << <<"T","x","n","_","D","a","t","e",".","M","O","N","T","H">> >>,
      << <<"D","a","y">>,
         <<"D","a","t","e",".","W","e","e","k","d","a","y">> >> }

\* the keys a classifier answer may hold: the seven roles and one more
GeminiKeys == RoleNames \cup {"notes"}

GeminiValues ==
    {Str(n) : n \in NameUniverse} \cup
    { Str(<<>>), NoneVal, ListVal(<<Str(Txn_Date)>>) }

\* answers that name every role, as the prompt asks
FullAnswers ==
    { [date |-> Str(Txn_Date), week_label |-> Str(Status),
       category |-> Str(Region), legend |-> Str(Region),
       measure |-> Str(Row_Id), event_index |-> Str(Row_Id),
       event_group |-> Str(Txn_Date)],
      [date |-> Str(<<"O","r","d","e","r","_","D","a","t","e">>),
       week_label |-> Str(Txn_Date),
       category |-> Str(Txn_Date), legend |-> NoneVal,
       measure |-> Str(<<>>), event_index |-> Str(Status),
       event_group |-> Str(Region), notes |-> Str(Status)],
      [date |-> Str(Txn_Date), week_label |-> Str(Status),
       category |-> Str(Region), legend |-> ListVal(<<Str(Region)>>),
       measure |-> Str(Row_Id), event_index |-> Str(Row_Id),
       event_group |-> Str(Txn_Date)] }

\* the JSON objects the classifier may answer: none or one key, or all
GeminiObjects ==
    {EmptyDict} \cup UNION { [{k} -> GeminiValues] : k \in GeminiKeys }
                \cup FullAnswers

\* the classifier has not been called yet
NoResponse == [kind |-> "pending", obj |-> EmptyDict]

\* the call raises; the text is not JSON; the JSON is not an object; an object
GeminiResponses ==
    { [kind |-> k, obj |-> EmptyDict] : k \in {"raise", "nonjson", "nonobject"} }
    \cup { [kind |-> "object", obj |-> o] : o \in GeminiObjects }

\* the partial assignments handed to _apply_fallback_logic
PartialAssignments ==
    UNION { [K -> NameUniverse \cup {<<>>}] :
            K \in {S \in SUBSET RoleNames : Cardinality(S) <= MaxAssigned} }

-----------------------------------------------------------------------------
(* detect_roles, step by step *)

\* no engine is running
RolesIdle ==
    /\ all_fields = <<>> /\ schema_data = EmptyDict /\ hierarchy = <<>>
    /\ gemini_response = NoResponse
    /\ schema_roles = EmptyDict /\ cardinality_roles = EmptyDict
    /\ gemini_roles = EmptyDict /\ roles = EmptyDict
    /\ roles_in = EmptyDict /\ used_fields = {}
    /\ field_mappings = NoMappings
    /\ pc = "idle"

\* create_powerbi_report is not running
ReportIdle ==
    /\ visuals_data = <<>> /\ bookmark_metadata = <<>>
    /\ all_visuals_on_page = <<>> /\ bookmarks = <<>>
    /\ bookmark_guid_map = EmptyDict /\ buttons = <<>>
    /\ guid_count = 0 /\ ri = 0
    /\ rpc = "idle"

\* smart_match_chart called on a sample target and pool
MatchInit ==
    /\ target_name \in TargetSamples
    /\ available_visuals \in Pools
    /\ target_norm = <<>> /\ vi = 0 /\ ai = 0
    /\ best_score = 0 /\ best_match = 0 /\ match_result = 0
    /\ mpc = "start"
    /\ RolesIdle
    /\ ReportIdle

\* the engine after __init__, detect_roles called
DetectInit ==
    /\ all_fields \in FieldLists
    /\ schema_data \in SchemaSamples
    /\ hierarchy \in HierarchySamples
    /\ gemini_response = NoResponse
    /\ schema_roles = EmptyDict /\ cardinality_roles = EmptyDict
    /\ gemini_roles = EmptyDict /\ roles = EmptyDict
    /\ roles_in = EmptyDict /\ used_fields = {}
    /\ field_mappings = NoMappings
    /\ pc = "schema"
    /\ MatchIdle
    /\ ReportIdle

\* _apply_fallback_logic called on a partial assignment
FallbackInit ==
    /\ all_fields \in FieldLists
    /\ schema_data = EmptyDict /\ hierarchy = <<>>
    /\ gemini_response = NoResponse
    /\ schema_roles = EmptyDict /\ cardinality_roles = EmptyDict
    /\ gemini_roles = EmptyDict
    /\ roles \in PartialAssignments
    /\ roles_in = EmptyDict /\ used_fields = {}
    /\ field_mappings = NoMappings
    /\ pc = "fallback"
    /\ MatchIdle
    /\ ReportIdle

engine == <<all_fields, schema_data, hierarchy>>
inputs == <<engine, gemini_response>>

\* line 383
SchemaStep ==
    /\ pc = "schema"
    /\ schema_roles' = AnalyzeSchemaSignals(all_fields, schema_data)
    /\ pc' = "cardinality"
    /\ UNCHANGED <<inputs, cardinality_roles, gemini_roles, roles, roles_in,
                   used_fields, field_mappings, mvars, bvars>>

\* line 388
CardinalityStep ==
    /\ pc = "cardinality"
    /\ cardinality_roles' = AnalyzeCardinalitySignals(all_fields)
    /\ pc' = "gemini"
    /\ UNCHANGED <<inputs, schema_roles, gemini_roles, roles, roles_in,
                   used_fields, field_mappings, mvars, bvars>>

\* line 393: the classifier answers, or fails, when it is called
GeminiStep ==
    /\ pc = "gemini"
    /\ \E response \in GeminiResponses :
          /\ gemini_response' = response
          /\ gemini_roles' = AskGemini(response)
    /\ pc' = "merge"
    /\ UNCHANGED <<engine, schema_roles, cardinality_roles, roles, roles_in,
                   used_fields, field_mappings, mvars, bvars>>

\* line 398
MergeStep ==
    /\ pc = "merge"
    /\ IF MergeRaises(gemini_roles)
       THEN /\ pc' = "raised"
            /\ UNCHANGED roles
       ELSE /\ roles' = MergeSignals(schema_roles, cardinality_roles,
                                     gemini_roles, all_fields)
            /\ pc' = "fallback"
    /\ UNCHANGED <<inputs, schema_roles, cardinality_roles, gemini_roles,
                   roles_in, used_fields, field_mappings, mvars, bvars>>

\* lines 307-308
FallbackEnter ==
    /\ pc = "fallback"
    /\ used_fields' = Values(roles)
    /\ roles_in' = roles
    /\ pc' = "fb_date"
    /\ UNCHANGED <<inputs, schema_roles, cardinality_roles, gemini_roles,
                   roles, field_mappings, mvars, bvars>>

\* the dict and the set _apply_fallback_logic works on
FallbackState == [roles |-> roles, used |-> used_fields]

\* one step of _apply_fallback_logic leaves st, then on to `next`
FallbackStep(st, next) ==
    /\ roles' = st.roles
    /\ used_fields' = st.used
    /\ pc' = next
    /\ UNCHANGED <<inputs, schema_roles, cardinality_roles, gemini_roles,
                   roles_in, field_mappings, mvars, bvars>>

\* lines 310-317
DateStep ==
    /\ pc = "fb_date"
    /\ FallbackStep(FallbackDate(FallbackState, FieldNames(all_fields)),
                    "fb_index")
\* lines 319-326
IndexStep ==
    /\ pc = "fb_index"
    /\ FallbackStep(FallbackIndex(FallbackState, FieldNames(all_fields)),
                    "fb_week")
\* lines 328-335
WeekStep ==
    /\ pc = "fb_week"
    /\ FallbackStep(FallbackWeek(FallbackState, FieldNames(all_fields)),
                    "fb_category")
\* lines 337-343
CategoryStep ==
    /\ pc = "fb_category"
    /\ FallbackStep(FallbackCategory(FallbackState, FieldNames(all_fields)),
                    "fb_legend")
\* lines 345-350
LegendStep ==
    /\ pc = "fb_legend"
    /\ FallbackStep(FallbackLegend(FallbackState, FieldNames(all_fields)),
                    "fb_measure")
\* lines 352-355
MeasureStep ==
    /\ pc = "fb_measure"
    /\ FallbackStep(FallbackMeasure(FallbackState, FieldNames(all_fields)),
                    "fb_group")
\* lines 357-360
GroupStep ==
    /\ pc = "fb_group"
    /\ FallbackStep(FallbackGroup(FallbackState, FieldNames(all_fields)),
                    "fb_ultimate")
\* lines 362-370
UltimateStep ==
    /\ pc = "fb_ultimate"
    /\ FallbackStep(FallbackUltimate(FallbackState, FieldNames(all_fields)),
                    "project")

\* lines 404-452
ProjectStep ==
    /\ pc = "project"
    /\ LET hierarchy_type == HierarchyType(hierarchy)
           result == ProjectRoles(roles, all_fields, hierarchy_type)
       IN  field_mappings' = FieldMappings(result, hierarchy_type)
    /\ pc' = "done"
    /\ UNCHANGED <<inputs, schema_roles, cardinality_roles, gemini_roles,
                   roles, roles_in, used_fields, mvars, bvars>>

-----------------------------------------------------------------------------
(* Specifications *)

FallbackNext ==
    \/ FallbackEnter
    \/ DateStep
    \/ IndexStep
    \/ WeekStep
    \/ CategoryStep
    \/ LegendStep
    \/ MeasureStep
    \/ GroupStep
    \/ UltimateStep

DetectNext ==
    \/ SchemaStep
    \/ CardinalityStep
    \/ GeminiStep
    \/ MergeStep
    \/ FallbackNext
    \/ ProjectStep

MatchNext ==
    \/ MatchEnter
    \/ MatchCandidate
    \/ MatchReturn

\* smart_match_chart on every sample target and pool
SpecMatch == MatchInit /\ [][MatchNext]_vars

\* detect_roles on every sample engine and classifier answer
SpecDetect == DetectInit /\ [][DetectNext]_vars

\* _apply_fallback_logic on every sample partial assignment
SpecFallback == FallbackInit /\ [][FallbackNext]_vars

-----------------------------------------------------------------------------
(* create_powerbi_report from the matching of the charts (step 2) to the    *)
(* action buttons (step 5). A GUID is the number of the gen_guid call that  *)
(* made it: uuid4 gives every call a value of its own.                      *)

\* gen_guid(), line 17, when `count` GUIDs are out
GenGuid(count) == count + 1

RECURSIVE BestFrom(_, _, _, _)
\* the two loops of lines 44-75 from the k-th (visual, attribute) pair on;
\* best = [score, match]
BestFrom(tnorm, visuals, k, best) ==
    IF k > 2 * Len(visuals) THEN best
    ELSE LET i == (k + 1) \div 2
             candidate == Candidates(visuals[i])[IF k % 2 = 1 THEN 1 ELSE 2]
             score == Score(tnorm, norm(candidate))
         IN  IF Truthy(candidate) /\ Improves(score, best.score)
             THEN BestFrom(tnorm, visuals, k + 1,
                           [score |-> score, match |-> i])
             ELSE BestFrom(tnorm, visuals, k + 1, best)

\* smart_match_chart as one call, on visuals whose titles and sources are
\* strings or missing: the index of the visual returned, 0 for None
SmartMatchChart(target, visuals) ==
    IF TargetMissing(target) \/ visuals = <<>> THEN 0
    ELSE LET best == BestFrom(norm(target), visuals, 1,
                              [score |-> 0, match |-> 0])
         IN  ReturnValue(best.score, best.match)

\* the items of seq at the positions in keep, in order
KeepAt(seq, keep) ==
    [k \in 1..Cardinality(keep) |->
        seq[CHOOSE i \in keep : Cardinality({j \in keep : j <= i}) = k]]

\* faulty variant of MatchedVisuals: one unmatched chart empties the list
MatchedVisualsAllOrNothing(zone_charts, visuals) ==
    LET found == [j \in DOMAIN zone_charts |->
                    SmartMatchChart(Str(zone_charts[j]), visuals)]
    IN  IF \E j \in DOMAIN found : found[j] = 0 THEN <<>>
        ELSE [j \in DOMAIN found |-> visuals[found[j]]]

\* lines 268-279: the visuals matched by the charts of a zone, in the order
\* of the charts; a chart without match is skipped
MatchedVisuals(zone_charts, visuals) ==
    LET found == [j \in DOMAIN zone_charts |->
                    SmartMatchChart(Str(zone_charts[j]), visuals)]
        matched == KeepAt(found, {j \in DOMAIN found : found[j] # 0})
    IN  [k \in DOMAIN matched |-> visuals[matched[k]]]

\* lines 306-325: the first visual of each name, in order
VisualsByGuid(visuals) ==
    KeepAt(visuals, {i \in DOMAIN visuals :
                        \A j \in 1..(i - 1) : visuals[j].name # visuals[i].name})

\* lines 349-371: the state of each visual of the page in a bookmark; a
\* visual whose config does not parse to an object gets none
VisualContainers(page, matched_visuals) ==
    LET visible_guids == {matched_visuals[k].name : k \in DOMAIN matched_visuals}
        parsed == {page[i].name : i \in {j \in DOMAIN page :
                                            page[j].config = "object"}}
    IN  [g \in parsed |-> IF g \notin visible_guids THEN "hidden"
                                                     ELSE "shown"]

\* lines 82-140: the button made by the n-th gen_guid call
CreateActionButton(button_name, bookmark_guid, button_guid) ==
    [name |-> button_guid, text |-> button_name, bookmark |-> bookmark_guid]

(* Sample inputs of create_powerbi_report *)

ChartAb ==
    [name |-> "guid-ab", title |-> Str(<<"a","b">>), source |-> Absent,
     config |-> "object"]
ChartRegion ==
    [name |-> "guid-region", title |-> Str(Region),
     source |-> Str(<<"A","B">>), config |-> "object"]
ChartAbc ==
    [name |-> "guid-abc", title |-> Str(<<"a","b","c">>), source |-> Absent,
     config |-> "malformed"]

\* visuals_output.json: never empty (line 151)
ReportPools ==
    { <<ChartRegion>>, <<ChartAb, ChartRegion>>,
      <<ChartAbc, ChartRegion, ChartAb>> }

\* chart names: one that equals a title after normalization, one that holds
\* a title, one that matches nothing
ChartNames ==
    [ab |-> <<"A"," ","b">>,
     sales |-> <<"S","a","l","e","s"," ","b","y"," ","R","e","g","i","o","n">>,
     profit |-> <<"P","r","o","f","i","t">>]

ZoneSamples ==
    { <<>>, <<ChartNames.ab>>, <<ChartNames.profit>>,
      <<ChartNames.profit, ChartNames.ab>>,
      <<ChartNames.sales, ChartNames.profit>>,
      <<ChartNames.ab, ChartNames.sales>> }

BookmarkNames == {"Show", "Hide"}

\* the entries step 1 appends (lines 243-248), before step 2 adds
\* matched_visuals
MetadataSamples ==
    {[bookmark_name |-> b, zone_charts |-> z, matched_visuals |-> <<>>] :
        b \in BookmarkNames, z \in ZoneSamples}

\* the report builder after step 1
ReportInit ==
    /\ visuals_data \in ReportPools
    /\ bookmark_metadata
          \in UNION {[1..n -> MetadataSamples] : n \in 0..MaxBookmarks}
    /\ all_visuals_on_page = <<>> /\ bookmarks = <<>>
    /\ bookmark_guid_map = EmptyDict /\ buttons = <<>>
    /\ guid_count = 0
    /\ ri = 1
    /\ rpc = "match"
    /\ MatchIdle
    /\ RolesIdle

\* lines 261-285, one entry of bookmark_metadata
MatchChartsStep ==
    /\ rpc = "match" /\ ri <= Len(bookmark_metadata)
    /\ bookmark_metadata' =
          [bookmark_metadata EXCEPT ![ri].matched_visuals =
              MatchedVisuals(bookmark_metadata[ri].zone_charts, visuals_data)]
    /\ ri' = ri + 1
    /\ UNCHANGED <<visuals_data, all_visuals_on_page, bookmarks,
                   bookmark_guid_map, buttons, guid_count, rpc, mvars, rvars>>

\* lines 294-333: the section and the visuals of the page
SectionStep ==
    /\ rpc = "match" /\ ri > Len(bookmark_metadata)
    /\ guid_count' = GenGuid(guid_count)
    /\ all_visuals_on_page' = VisualsByGuid(visuals_data)
    /\ ri' = 1
    /\ rpc' = "bookmarks"
    /\ UNCHANGED <<visuals_data, bookmark_metadata, bookmarks,
                   bookmark_guid_map, buttons, mvars, rvars>>

\* lines 339-391, one entry of bookmark_metadata
BookmarkStep ==
    /\ rpc = "bookmarks" /\ ri <= Len(bookmark_metadata)
    /\ LET bm_name == bookmark_metadata[ri].bookmark_name
           matched_visuals == bookmark_metadata[ri].matched_visuals
           bm_guid == GenGuid(guid_count)
       IN  /\ guid_count' = bm_guid
           /\ bookmark_guid_map' = Put(bookmark_guid_map, bm_name, bm_guid)
           /\ bookmarks' = Append(bookmarks,
                  [displayName |-> bm_name, name |-> bm_guid,
                   visualContainers |->
                      VisualContainers(all_visuals_on_page, matched_visuals)])
    /\ ri' = ri + 1
    /\ UNCHANGED <<visuals_data, bookmark_metadata, all_visuals_on_page,
                   buttons, rpc, mvars, rvars>>

\* lines 397-407: on to the buttons
ButtonsEnter ==
    /\ rpc = "bookmarks" /\ ri > Len(bookmark_metadata)
    /\ ri' = 1
    /\ rpc' = "buttons"
    /\ UNCHANGED <<visuals_data, bookmark_metadata, all_visuals_on_page,
                   bookmarks, bookmark_guid_map, buttons, guid_count,
                   mvars, rvars>>

\* lines 409-431, one entry of bookmark_metadata
ButtonStep ==
    /\ rpc = "buttons" /\ ri <= Len(bookmark_metadata)
    /\ LET bm_name == bookmark_metadata[ri].bookmark_name
           bm_guid == bookmark_guid_map[bm_name]
       IN  buttons' = Append(buttons,
              CreateActionButton(bm_name, bm_guid, GenGuid(guid_count)))
    /\ guid_count' = GenGuid(guid_count)
    /\ ri' = ri + 1
    /\ UNCHANGED <<visuals_data, bookmark_metadata, all_visuals_on_page,
                   bookmarks, bookmark_guid_map, rpc, mvars, rvars>>

\* lines 435-491: the report is assembled and written
AssembleStep ==
    /\ rpc = "buttons" /\ ri > Len(bookmark_metadata)
    /\ rpc' = "done"
    /\ UNCHANGED <<visuals_data, bookmark_metadata, all_visuals_on_page,
                   bookmarks, bookmark_guid_map, buttons, guid_count, ri,
                   mvars, rvars>>

ReportNext ==
    \/ MatchChartsStep
    \/ SectionStep
    \/ BookmarkStep
    \/ ButtonsEnter
    \/ ButtonStep
    \/ AssembleStep

\* create_powerbi_report on every sample pool and list of entries
SpecReport == ReportInit /\ [][ReportNext]_vars

-----------------------------------------------------------------------------
(* _apply_fallback_logic on field names that reach several of its patterns *)

Date_Id == <<"D","a","t","e","_","I","d">>
Week_Id == <<"W","e","e","k","_","I","d">>

\* Date_Id holds a date and an index pattern, Week_Id an index and a week
\* pattern, Status a week pattern, Region none
StepFieldUniverse ==
    { [name |-> Date_Id, table |-> SalesTable],
      [name |-> Week_Id, table |-> SalesTable],
      [name |-> Status, table |-> SalesTable],
      [name |-> Region, table |-> SalesTable] }

StepFieldLists ==
    UNION { {fs \in [1..n -> StepFieldUniverse] :
                \A i, j \in 1..n : fs[i] = fs[j] => i = j} :
            n \in 0..MaxFields }

\* the partial assignments with these values: a field with two patterns, a
\* field with one, the empty value
StepAssignments ==
    UNION { [K -> {Date_Id, Status, <<>>}] :
            K \in {S \in SUBSET RoleNames : Cardinality(S) <= MaxAssigned} }

\* _apply_fallback_logic called on such a partial assignment
FallbackStepsInit ==
    /\ all_fields \in StepFieldLists
    /\ schema_data = EmptyDict /\ hierarchy = <<>>
    /\ gemini_response = NoResponse
    /\ schema_roles = EmptyDict /\ cardinality_roles = EmptyDict
    /\ gemini_roles = EmptyDict
    /\ roles \in StepAssignments
    /\ roles_in = EmptyDict /\ used_fields = {}
    /\ field_mappings = NoMappings
    /\ pc = "fallback"
    /\ MatchIdle
    /\ ReportIdle

\* _apply_fallback_logic, step by step, on these inputs
SpecFallbackSteps == FallbackStepsInit /\ [][FallbackNext]_vars

-----------------------------------------------------------------------------
(* The two analyzers on fields and schemas chosen for their branches *)

Type_Id == <<"T","y","p","e","_","I","d">>
Week_Type == <<"W","e","e","k","_","T","y","p","e">>
Week_Name == <<"W","e","e","k","_","N","a","m","e">>

\* names that reach one, two or none of the pattern groups; Status is in a
\* table the sample schemas do not describe
AnalyzerFieldUniverse ==
    { [name |-> Type_Id, table |-> SalesTable],
      [name |-> Row_Id, table |-> SalesTable],
      [name |-> Week_Type, table |-> SalesTable],
      [name |-> Week_Name, table |-> SalesTable],
      [name |-> Region, table |-> SalesTable],
      [name |-> Status, table |-> DimTable] }

AnalyzerFieldLists ==
    UNION { {fs \in [1..n -> AnalyzerFieldUniverse] :
                \A i, j \in 1..n : fs[i] = fs[j] => i = j} :
            n \in 0..MaxFields }

\* declared types that hold a keyword of one group, of two groups, of none;
\* an empty type and a column without type
AnalyzerSchemaSamples ==
    { EmptyDict,
      [tb \in {SalesTable} |->
        << [name |-> Str(Type_Id),
            type |-> Str(<<"I","n","t","e","g","e","r">>)],
           [name |-> Str(<<" ","r","o","w","_","i","d"," ">>),
            type |-> Str(<<"D","a","t","e","_","I","n","t">>)],
           [name |-> Str(Week_Type),
            type |-> Str(<<"n","v","a","r","c","h","a","r">>)],
           [name |-> Str(Week_Name),
            type |-> Str(<<"D","a","t","e","T","i","m","e">>)],
           [name |-> Str(Region),
            type |-> Str(<<"C","h","a","r","(","N","u","m","b","e","r",")">>)] >>],
      [tb \in {SalesTable} |->
        << [name |-> Str(Type_Id), type |-> Str(<<>>)],
           [name |-> Str(Row_Id), type |-> Absent],
           [name |-> Str(Week_Type),
            type |-> Str(<<"b","o","o","l">>)],
           [name |-> Str(Week_Name),
            type |-> Str(<<"F","L","O","A","T">>)],
           [name |-> Str(Week_Name),
            type |-> Str(<<"t","e","x","t">>)],
           [name |-> Str(Region),
            type |-> Str(<<"d","e","c","i","m","a","l">>)] >>] }

\* the engine after __init__, the two analyzers about to run
AnalyzeInit ==
    /\ all_fields \in AnalyzerFieldLists
    /\ schema_data \in AnalyzerSchemaSamples
    /\ hierarchy = <<>>
    /\ gemini_response = NoResponse
    /\ schema_roles = EmptyDict /\ cardinality_roles = EmptyDict
    /\ gemini_roles = EmptyDict /\ roles = EmptyDict
    /\ roles_in = EmptyDict /\ used_fields = {}
    /\ field_mappings = NoMappings
    /\ pc = "schema"
    /\ MatchIdle
    /\ ReportIdle

AnalyzeNext ==
    \/ SchemaStep
    \/ CardinalityStep

\* _analyze_schema_signals and _analyze_cardinality_signals on every sample
\* field list and schema
SpecAnalyze == AnalyzeInit /\ [][AnalyzeNext]_vars

-----------------------------------------------------------------------------
(* Properties of smart_match_chart, under SpecMatch *)

\* the title and source values the pool holds (a missing key holds none)
PoolAttributes ==
    UNION { {available_visuals[i].title, available_visuals[i].source} :
            i \in DOMAIN available_visuals } \ {Absent}

\* the scores of all the attributes that the loop does not skip
AttributeScores ==
    {Score(norm(target_name), norm(c)) : c \in {a \in PoolAttributes : Truthy(a)}}

\* every title and source of the pool is a str, or is missing
StringPool == \A c \in PoolAttributes : c.t = "str"

\* C1: a visual is returned only if the highest score over all the title and
\* source attributes of all the visuals is at least 50; when the highest
\* score is below 50 the result is None.
C1_ThresholdGate ==
    mpc = "done" =>
        /\ match_result # 0 => \E s \in AttributeScores : s >= 50
        /\ (\A s \in AttributeScores : s < 50) => match_result = 0

\* C1: a run that ends with a positive best score below 50, and None.
C1_Witness ==
    /\ mpc = "done" /\ match_result = 0
    /\ best_score > 0 /\ best_score < 50
    /\ best_match # 0

\* C2, as stated: whenever the normalized target equals the normalized form
\* of some title or source of the pool, a visual is returned, for every
\* target string and every pool.
C2_ExactAlwaysMatches ==
    (/\ mpc = "done"
     /\ target_name.t = "str"
     /\ \E c \in PoolAttributes :
            c.t = "str" /\ norm(c) = norm(target_name))
    => match_result # 0

\* C2, amended: a non-empty target whose normalized form equals that of a
\* non-empty title or source is matched with the score 100, also when both
\* normalize to the empty string.
C2_ExactNonEmptyMatches ==
    (/\ mpc = "done"
     /\ Truthy(target_name)
     /\ \E c \in PoolAttributes :
            c.t = "str" /\ Truthy(c) /\ norm(c) = norm(target_name))
    => (match_result # 0 /\ best_score = 100)

\* C2: a non-empty target that normalizes to the empty string is matched,
\* with the score 100, to an attribute that normalizes to the empty string.
C2_Witness ==
    /\ mpc = "done"
    /\ Truthy(target_name) /\ norm(target_name) = <<>>
    /\ match_result # 0 /\ best_score = 100
    /\ norm(Candidates(available_visuals[match_result])[1]) = <<>>

\* C10: smart_match_chart never raises on a pool whose titles and sources
\* are strings or missing, nor on a missing or empty target or an empty pool;
\* its loops stay within the pool; it returns a visual of the pool or None,
\* and None for a missing or empty target and for an empty pool.
C10_NeverRaises ==
    /\ (StringPool \/ ~Truthy(target_name) \/ available_visuals = <<>>)
            => mpc # "raised"
    /\ mpc = "loop" => (vi \in 1..(Len(available_visuals) + 1) /\ ai \in {1, 2})
    /\ mpc = "done" => match_result \in 0..Len(available_visuals)
    /\ (mpc = "done" /\ (~Truthy(target_name) \/ available_visuals = <<>>))
            => match_result = 0

\* C10: an empty target on a pool that holds a title and a source: None.
C10_Witness ==
    /\ mpc = "done"
    /\ target_name = Str(<<>>)
    /\ \E i \in DOMAIN available_visuals :
            /\ Truthy(Candidates(available_visuals[i])[1])
            /\ Truthy(Candidates(available_visuals[i])[2])
    /\ match_result = 0

-----------------------------------------------------------------------------
(* Properties of _apply_fallback_logic, under SpecFallback *)

\* C3: for a non-empty field set and any partial assignment, the assignment
\* returned by _apply_fallback_logic gives each of the seven roles a
\* non-empty value.
C3_FallbackTotal ==
    (pc = "project" /\ all_fields # <<>>) =>
        \A r \in RoleNames : r \in DOMAIN roles /\ roles[r] # <<>>

\* C3: a role passed in with an empty value, and one not passed in at all,
\* both hold a field when the fallback returns.
C3_Witness ==
    /\ pc = "project" /\ all_fields # <<>>
    /\ \E r \in DOMAIN roles_in : roles_in[r] = <<>> /\ roles[r] # <<>>
    /\ \E r \in RoleNames \ DOMAIN roles_in : roles[r] # <<>>

-----------------------------------------------------------------------------
(* Properties of detect_roles, under SpecDetect *)

\* the classifier map, with only the values that are str
GeminiNames ==
    [k \in {x \in DOMAIN gemini_roles : gemini_roles[x].t = "str"} |->
        gemini_roles[k].s]

\* the three sources, highest priority first
SignalSources == <<GeminiNames, schema_roles, cardinality_roles>>

\* the sources whose value for the role is a candidate field
NamingSources(r) ==
    {i \in DOMAIN SignalSources :
        /\ r \in DOMAIN SignalSources[i]
        /\ IsField(all_fields, SignalSources[i][r])}

\* C4: after the merge and the fallback, every value of the role assignment
\* is the name of a field of all_fields.
C4_ValuesAreFields ==
    pc \in {"project", "done"} =>
        \A k \in DOMAIN roles : IsField(all_fields, roles[k])

\* C4: a run to the end in which the classifier named, for some role, a
\* field that the visual does not hold.
C4_Witness ==
    /\ pc = "done" /\ all_fields # <<>>
    /\ \E k \in DOMAIN GeminiNames :
            /\ GeminiNames[k] # <<>>
            /\ ~IsField(all_fields, GeminiNames[k])
            /\ k \in DOMAIN roles

\* C5: for every role, the merged value is the one named by the
\* highest-priority source (classifier, schema, naming pattern) whose value
\* is a candidate field; the role is missing when no source names one.
C5_MergePriority ==
    pc = "fallback" =>
        \A r \in RoleNames \cup DOMAIN gemini_roles :
            IF NamingSources(r) = {}
            THEN r \notin DOMAIN roles
            ELSE /\ r \in DOMAIN roles
                 /\ roles[r] = SignalSources[Min(NamingSources(r))][r]

\* C5: the three sources name three different candidate fields for category
\* and the merged value is the classifier's; for date the classifier names no
\* candidate field and the merged value is the schema's.
C5_Witness ==
    /\ pc = "fallback"
    /\ NamingSources("category") = {1, 2, 3}
    /\ Cardinality({SignalSources[i]["category"] : i \in 1..3}) = 3
    /\ roles["category"] = GeminiNames["category"]
    /\ "date" \in DOMAIN GeminiNames
    /\ NamingSources("date") = {2}
    /\ roles["date"] = schema_roles["date"]

\* the scenario of C7: the three fields, in order, all in SalesTable, no
\* schema, nothing from the classifier
SalesScenario ==
    /\ all_fields = << [name |-> Txn_Date, table |-> SalesTable],
                       [name |-> Row_Id, table |-> SalesTable],
                       [name |-> Region, table |-> SalesTable] >>
    /\ schema_data = EmptyDict
    /\ gemini_roles = EmptyDict

\* C7: for Txn_Date, Row_Id, Region with no classifier signal and no schema
\* types the pipeline yields date=Txn_Date, event_index=Row_Id,
\* category=Region, week_label=Txn_Date, legend=Region, measure=Row_Id and
\* event_group=Txn_Date.
C7_SalesScenario ==
    (SalesScenario /\ pc \in {"project", "done"}) =>
        roles = [date |-> Txn_Date, event_index |-> Row_Id,
                 category |-> Region, week_label |-> Txn_Date,
                 legend |-> Region, measure |-> Row_Id,
                 event_group |-> Txn_Date]

\* C7: the scenario run to the end, the naming analysis having proposed
\* only event_index.
C7_Witness ==
    /\ SalesScenario /\ pc = "done"
    /\ gemini_response.kind = "raise"
    /\ cardinality_roles = [event_index |-> Row_Id]
    /\ roles_in = [event_index |-> Row_Id]

\* the classifier call raised, or answered text that is not JSON, or JSON
\* that is not an object mapping role names to strings
ClassifierFailed ==
    \/ gemini_response.kind \in {"raise", "nonjson", "nonobject"}
    \/ /\ gemini_response.kind = "object"
       /\ \E k \in DOMAIN gemini_response.obj :
            k \notin RoleNames \/ gemini_response.obj[k].t # "str"

\* the assignment the schema and naming signals give with an empty
\* classifier map
DegradedRoles ==
    ApplyFallbackLogic(
        MergeSignals(AnalyzeSchemaSignals(all_fields, schema_data),
                     AnalyzeCardinalitySignals(all_fields), EmptyDict,
                     all_fields),
        FieldNames(all_fields))

\* C8, as stated: whatever way the classifier fails, detect_roles does not
\* raise and the role assignment is the one of the schema and naming signals
\* with an empty classifier map.
C8_FailureAbsorbed ==
    ClassifierFailed =>
        /\ pc # "raised"
        /\ pc \in {"project", "done"} => roles = DegradedRoles

\* C9, as stated: with no candidate field, role resolution does not raise,
\* no role is assigned, and every projected entry is the unresolved sentinel.
C9_EmptyFieldSet ==
    all_fields = <<>> =>
        /\ pc # "raised"
        /\ pc \in {"project", "done"} => roles = EmptyDict
        /\ pc = "done" =>
            \A k \in {"events", "event_group", "cell_color", "start_date",
                      "end_date"} : field_mappings[k] = UnknownRef

\* C11, as stated: the role assignment that _merge_signals returns and that
\* _apply_fallback_logic returns holds no key outside the seven roles,
\* whatever keys the classifier answer holds.
C11_ClosedRoleSet ==
    pc \in {"fallback", "project", "done"} => DOMAIN roles \subseteq RoleNames

-----------------------------------------------------------------------------
(* Scoring properties of smart_match_chart, under SpecMatch *)

SalesByRegion ==
    Str(<<"S","a","l","e","s"," ","b","y"," ","R","e","g","i","o","n">>)
SalesByRegion2024 ==
    Str(<<"S","a","l","e","s"," ","b","y"," ","R","e","g","i","o","n",
          " ","(","2","0","2","4",")">>)
RegionTitle == Str(<<"R","e","g","i","o","n">>)

\* the scenario of C12: the target and the titles of the two visuals
RegionScenario ==
    /\ target_name = SalesByRegion
    /\ Len(available_visuals) = 2
    /\ available_visuals[1].title = SalesByRegion2024
    /\ available_visuals[2].title = RegionTitle

\* C12, as stated: in the scenario the first title scores 80 minus the
\* difference of the normalized lengths, the second title scores the
\* token-overlap value 40+10, and the first visual is returned.
C12_RegionTokenOverlap ==
    (RegionScenario /\ mpc = "done") =>
        /\ Score(target_norm, norm(SalesByRegion2024))
              = 80 - (Len(norm(SalesByRegion2024)) - Len(target_norm))
        /\ Score(target_norm, norm(RegionTitle)) = 40 + 10
        /\ match_result = 1

\* C12, amended: the first title scores 80 minus the difference of the
\* normalized lengths (76), the second title scores the reverse-containment
\* value 60, the best score stays that of the first title from the moment it
\* is scored, and the first visual is returned.
C12_RegionReverseContainment ==
    RegionScenario =>
        /\ (mpc = "loop" /\ <<vi, ai>> # <<1, 1>>) =>
                (best_score = 76 /\ best_match = 1)
        /\ mpc = "done" =>
            /\ Score(target_norm, norm(SalesByRegion2024))
                  = 80 - (Len(norm(SalesByRegion2024)) - Len(target_norm))
            /\ Score(target_norm, norm(RegionTitle)) = 60
            /\ best_score = 76
            /\ match_result = 1

\* C12: the scenario run to the end, the second title scored after the
\* first, the first visual returned.
C12_Witness ==
    /\ RegionScenario /\ mpc = "done"
    /\ vi = 3 /\ best_score = 76 /\ match_result = 1
    /\ Contains(norm(RegionTitle), target_norm)

\* the attributes of visual i that the loop scores (it skips the empty ones)
ScoredOf(i) ==
    {c \in {available_visuals[i].title, available_visuals[i].source} \ {Absent} :
        Truthy(c)}

\* the attributes of the pool that the loop scores
ScoredAttributes == UNION {ScoredOf(i) : i \in DOMAIN available_visuals}

\* the pool holds scored attributes, and the normalized form of each of them
\* contains the normalized target
AllContain ==
    /\ Truthy(target_name) /\ StringPool
    /\ ScoredAttributes # {}
    /\ \A c \in ScoredAttributes : Contains(norm(target_name), norm(c))

\* the length of the shortest normalized attribute of the pool
ShortestLen == Min({Len(norm(c)) : c \in ScoredAttributes})

\* visual i holds an attribute of the shortest normalized length
HoldsShortest(i) == \E c \in ScoredOf(i) : Len(norm(c)) = ShortestLen

\* for the attributes that strictly contain the normalized target, one more
\* character is one point less
OnePointPerCharacter ==
    \A c, d \in ScoredAttributes :
        (/\ norm(c) # norm(target_name) /\ norm(d) # norm(target_name)
         /\ Contains(norm(target_name), norm(c))
         /\ Contains(norm(target_name), norm(d)))
        => Score(norm(target_name), norm(c)) - Score(norm(target_name), norm(d))
             = Len(norm(d)) - Len(norm(c))

\* C13, as stated: the containment score loses exactly one point for each
\* extra character of the normalized attribute, and when every attribute of
\* the pool contains the target a visual holding the shortest normalized
\* attribute is returned.
C13_ShortestContainingReturned ==
    (mpc = "done" /\ AllContain) =>
        /\ OnePointPerCharacter
        /\ match_result # 0
        /\ HoldsShortest(match_result)

\* C13, amended: the containment score loses exactly one point for each
\* extra character; when every attribute of the pool contains the target, a
\* visual holding the shortest normalized attribute is returned if that
\* attribute has at most 30 characters more than the normalized target, and
\* None is returned if it has more.
C13_ShortestContainingWithinThreshold ==
    (mpc = "done" /\ AllContain) =>
        /\ OnePointPerCharacter
        /\ IF ShortestLen - Len(target_norm) <= 30
           THEN match_result # 0 /\ HoldsShortest(match_result)
           ELSE match_result = 0

\* C13: every attribute strictly contains the target; the first visual holds
\* the longer one and the second visual, holding the shorter, is returned.
C13_Witness ==
    /\ mpc = "done" /\ AllContain
    /\ \A c \in ScoredAttributes : norm(c) # target_norm
    /\ target_norm # <<>>
    /\ Len(available_visuals) = 2
    /\ ~HoldsShortest(1)
    /\ match_result = 2

\* the str values handed to norm: the target and the scored attributes
NormInputs ==
    {x \in {target_name} \cup PoolAttributes : x.t = "str"}

\* C14: norm is idempotent, norm(norm(x)) = norm(x) for every string x, on
\* the target as smart_match_chart normalized it and on every string of the
\* pool; an empty or missing input normalizes to the empty string.
C14_NormIdempotent ==
    /\ mpc = "loop" => norm(Str(target_norm)) = target_norm
    /\ mpc = "done" =>
          \A x \in NormInputs :
              LET once == norm(x)
              IN  /\ norm(Str(once)) = once
                  /\ ~Truthy(x) => once = <<>>
    /\ norm(Str(<<>>)) = <<>>
    /\ norm(NoneVal) = <<>>

\* C14: a target with capitals and two separators has been normalized to a
\* different, non-empty string, which norm leaves as it is.
C14_Witness ==
    /\ mpc = "loop"
    /\ target_norm = norm(target_name)
    /\ target_norm # <<>>
    /\ Len(target_name.s) - Len(target_norm) >= 2
    /\ Lower(target_name.s) # target_name.s
    /\ norm(Str(target_norm)) = target_norm

\* the positions <<visual, attribute>> that the loop has scored so far
Processed ==
    {q \in (DOMAIN available_visuals) \X {1, 2} :
        /\ q[1] < vi \/ (q[1] = vi /\ q[2] < ai)
        /\ Truthy(Candidates(available_visuals[q[1]])[q[2]])}

\* the score the loop gave at a position
ScoreAt(q) == Score(target_norm, norm(Candidates(available_visuals[q[1]])[q[2]]))

Max(S) == CHOOSE x \in S : \A y \in S : y <= x

\* the scores the loop has given so far, by position
ScoresSoFar == [q \in Processed |-> ScoreAt(q)]

\* the highest of the scores, 0 if there is none
Highest(scores) == Max({0} \cup Range(scores))

\* the first visual, in pool order, that holds the score
FirstWith(scores, score) ==
    Min({q[1] : q \in {x \in DOMAIN scores : scores[x] = score}})

\* C15: at every point of the loop the best match is the visual that first
\* reached the highest score given so far (a later visual or attribute with
\* the same score does not replace it), and the visual returned is the
\* first, in pool order, that reached the highest score.
C15_FirstHighestWins ==
    mpc \in {"loop", "done"} =>
        LET scores == ScoresSoFar
            highest == Highest(scores)
        IN  /\ best_score = highest
            /\ best_match = IF highest > 0 THEN FirstWith(scores, highest)
                                           ELSE 0
            /\ mpc = "done" =>
                  match_result = IF highest >= 50
                                 THEN FirstWith(scores, highest) ELSE 0

\* C15: both visuals of the pool reach the same highest score, through
\* different titles, and the first is returned.
C15_Witness ==
    /\ mpc = "done"
    /\ Len(available_visuals) = 2
    /\ available_visuals[1].title # available_visuals[2].title
    /\ \E a, b \in {1, 2} :
            /\ <<1, a>> \in Processed /\ <<2, b>> \in Processed
            /\ ScoreAt(<<1, a>>) = best_score
            /\ ScoreAt(<<2, b>>) = best_score
    /\ best_score >= 50
    /\ match_result = 1

-----------------------------------------------------------------------------
(* Properties of the projection of detect_roles, under SpecDetect *)

\* the keyword that occurs first in the hint: leftmost, and the whole
\* keyword (Weekday, not its prefix Week) where two begin together
FirstKeyword(hint) ==
    LET p == Min(KeywordPositions(hint))
        ks == {j \in DOMAIN HierarchyKeywords :
                    KeywordAt(hint, p, HierarchyKeywords[j])}
        k == CHOOSE j \in ks :
                \A i \in ks : Len(HierarchyKeywords[i]) <= Len(HierarchyKeywords[j])
    IN  HierarchyKeywords[k]

\* the hints that hold a keyword
KeywordHints == {i \in DOMAIN hierarchy : KeywordPositions(hierarchy[i]) # {}}

\* C16, as stated: the hierarchy level of the result is the first keyword
\* among Quarter, Month, Year, Week, Weekday occurring, in any case, in the
\* first hint that holds one (Weekday for a hint whose first keyword is
\* "Weekday"), and Quarter when no hint holds one.
C16_HierarchyLevel ==
    pc = "done" =>
        field_mappings.hierarchy_type =
            IF KeywordHints = {} THEN <<"Q","u","a","r","t","e","r">>
            ELSE FirstKeyword(hierarchy[Min(KeywordHints)])

\* "table.field" for a field of all_fields
PlainRef(f) == TableOf(all_fields, f) \o <<".">> \o f

\* ".Variation.Date Hierarchy.<level>" for the level detect_roles returned
LevelSuffix ==
    <<".","V","a","r","i","a","t","i","o","n",".","D","a","t","e"," ",
      "H","i","e","r","a","r","c","h","y",".">> \o field_mappings.hierarchy_type

\* `result`, the projection by role that detect_roles built
Projection == ProjectRoles(roles, all_fields, field_mappings.hierarchy_type)

\* C17: in the projection of detect_roles every role other than event_group
\* maps to the reference "table.field" paired with the table that owns the
\* field, and event_group alone maps to that reference followed by
\* ".Variation.Date Hierarchy.<level>"; the returned entries built from the
\* roles carry the same references.
C17_ProjectionShape ==
    pc = "done" =>
        /\ \A r \in DOMAIN Projection :
              /\ Projection[r][2] = TableOf(all_fields, roles[r])
              /\ Projection[r][1] =
                    IF r = "event_group"
                    THEN PlainRef(roles[r]) \o LevelSuffix
                    ELSE PlainRef(roles[r])
        /\ all_fields # <<>> =>
              /\ DOMAIN Projection = DOMAIN roles
              /\ field_mappings.events[1] = PlainRef(roles["event_index"])
              /\ field_mappings.cell_color[1] = PlainRef(roles["week_label"])
              /\ field_mappings.start_date[1] = PlainRef(roles["date"])
              /\ field_mappings.end_date[1] = PlainRef(roles["date"])
              /\ field_mappings.event_group[1]
                    = PlainRef(roles["event_group"]) \o LevelSuffix
              /\ field_mappings.event_group[2]
                    = TableOf(all_fields, roles["event_group"])

\* C17: a run to the end with a level taken from a hint, where event_group
\* and date are fields of different tables.
C17_Witness ==
    /\ pc = "done" /\ all_fields # <<>>
    /\ field_mappings.hierarchy_type = <<"M","o","n","t","h">>
    /\ field_mappings.event_group[2] = DimTable
    /\ field_mappings.start_date[2] = SalesTable
    /\ field_mappings.event_group[1] # PlainRef(roles["event_group"])
    /\ "category" \in DOMAIN Projection

-----------------------------------------------------------------------------
(* The branches of the score, under SpecMatch *)

\* the normalized attribute the loop scored at a position
NormAt(q) == norm(Candidates(available_visuals[q[1]])[q[2]])

\* the loop gave the containment score at the position
ContainmentScored(q) ==
    /\ NormAt(q) # target_norm
    /\ ScoreAt(q) = 80 - (Len(NormAt(q)) - Len(target_norm))

\* C18, as stated: the containment score 80 - (len(attribute) - len(target))
\* is given only when the normalized target is a non-empty proper substring
\* of the normalized attribute; a non-empty target that normalizes to the
\* empty string gets no containment score, so it matches no attribute that
\* normalizes to a non-empty string.
C18_ContainmentNeedsTarget ==
    (mpc \in {"loop", "done"} /\ Truthy(target_name)) =>
        /\ \A q \in Processed :
              ContainmentScored(q) =>
                  (target_norm # <<>> /\ Contains(target_norm, NormAt(q)))
        /\ (/\ mpc = "done" /\ target_norm = <<>>
            /\ \A q \in Processed : NormAt(q) # <<>>)
           => match_result = 0

\* the normalized attribute at the position is a substring of the normalized
\* target, which neither equals it nor is contained in it
ReverseContained(q) ==
    /\ Contains(NormAt(q), target_norm)
    /\ NormAt(q) # target_norm
    /\ ~Contains(target_norm, NormAt(q))

\* C19: an attribute whose normalized form is a substring of the normalized
\* target, the target being neither equal to it nor contained in it, scores
\* exactly 60 whatever the lengths; the best score is then at least 60 and
\* a visual is returned.
C19_ReverseContainmentSixty ==
    mpc \in {"loop", "done"} =>
        \A q \in Processed :
            ReverseContained(q) =>
                /\ ScoreAt(q) = 60
                /\ best_score >= 60
                /\ mpc = "done" => match_result # 0

\* C19: a title seven characters shorter than the target that holds it is
\* the best of the pool, with 60, and its visual is returned.
C19_Witness ==
    /\ mpc = "done"
    /\ \E q \in Processed :
            /\ ReverseContained(q)
            /\ Len(target_norm) - Len(NormAt(q)) = 7
            /\ match_result = q[1]
    /\ best_score = 60

\* the whitespace-separated tokens of the lowercase string, before the
\* normalization removes the separators
PreTokens(x) == Words(Lower(Strip(x.s)))

\* the attribute the loop scored at a position
AttributeAt(q) == Candidates(available_visuals[q[1]])[q[2]]

\* C20, as stated: when neither normalized string contains the other, the
\* score is 40 + 10 x the number of whitespace-separated tokens that the
\* lowercase target and the lowercase attribute share, and 0 when they share
\* none; a target and an attribute sharing a word, with no containment,
\* score at least 50.
C20_TokenOverlap ==
    (mpc \in {"loop", "done"} /\ Truthy(target_name)) =>
        \A q \in Processed :
            (/\ ~Contains(target_norm, NormAt(q))
             /\ ~Contains(NormAt(q), target_norm))
            => LET common == PreTokens(target_name) \cap PreTokens(AttributeAt(q))
               IN  ScoreAt(q) = IF common # {}
                                THEN 40 + (Cardinality(common) * 10) ELSE 0

-----------------------------------------------------------------------------
(* Properties of the two analyzers, under SpecAnalyze *)

\* the keywords of the three type groups, in the order the code tests them
TypeGroups ==
    << [role |-> "date", keywords |-> DateTypes],
       [role |-> "measure", keywords |-> NumericTypes],
       [role |-> "category", keywords |-> TextTypes] >>

\* the declared type of field i, in lowercase; None when the schema has none
DeclaredType(i) ==
    GetFieldDatatype(schema_data, all_fields[i].name, all_fields[i].table)

\* the declared type of field i holds a keyword of group g
HoldsKeyword(i, g) ==
    /\ Truthy(DeclaredType(i))
    /\ ContainsAny(TypeGroups[g].keywords, DeclaredType(i).s)

\* the fields whose type holds a keyword of group g
KeywordFields(g) == {i \in DOMAIN all_fields : HoldsKeyword(i, g)}

\* the fields whose type holds a keyword of group g and of no earlier group
ClassFields(g) ==
    {i \in KeywordFields(g) : \A h \in 1..(g - 1) : ~HoldsKeyword(i, h)}

\* C21, as stated: the schema analyzer proposes only date, measure and
\* category, and each of them is the first field, in field order, whose
\* declared type holds a temporal, numeric or textual keyword respectively;
\* fields without a known type propose nothing.
C21_FirstFieldOfKeyword ==
    pc # "schema" =>
        /\ DOMAIN schema_roles \subseteq {"date", "measure", "category"}
        /\ \A g \in DOMAIN TypeGroups :
              IF KeywordFields(g) = {}
              THEN TypeGroups[g].role \notin DOMAIN schema_roles
              ELSE /\ TypeGroups[g].role \in DOMAIN schema_roles
                   /\ schema_roles[TypeGroups[g].role]
                        = all_fields[Min(KeywordFields(g))].name

\* C21, amended: each field proposes at most one role, that of the first
\* group (temporal, then numeric, then textual) of which its declared type
\* holds a keyword; each of the roles date, measure and category is the
\* first field, in field order, that proposes it, and fields without a
\* known type propose nothing.
C21_FirstFieldOfClass ==
    pc # "schema" =>
        /\ DOMAIN schema_roles \subseteq {"date", "measure", "category"}
        /\ \A g \in DOMAIN TypeGroups :
              IF ClassFields(g) = {}
              THEN TypeGroups[g].role \notin DOMAIN schema_roles
              ELSE /\ TypeGroups[g].role \in DOMAIN schema_roles
                   /\ schema_roles[TypeGroups[g].role]
                        = all_fields[Min(ClassFields(g))].name

\* C21: two fields of temporal type, the first of which also holds a numeric
\* keyword, and a field without a known type: date is the first of the two
\* and nothing is proposed as measure.
C21_Witness ==
    /\ pc # "schema"
    /\ Cardinality(ClassFields(1)) >= 2
    /\ Min(ClassFields(1)) \in KeywordFields(2)
    /\ schema_roles["date"] = all_fields[Min(ClassFields(1))].name
    /\ "measure" \notin DOMAIN schema_roles
    /\ \E i \in DOMAIN all_fields : ~Truthy(DeclaredType(i))

\* the three name-pattern groups, in the order the code tests them
NameGroups ==
    << [role |-> "event_index", patterns |-> IndexNamePatterns],
       [role |-> "category", patterns |-> CategoryNamePatterns],
       [role |-> "week_label", patterns |-> WeekNamePatterns] >>

\* the lowercase name of field i contains a pattern of group g
MatchesGroup(i, g) ==
    ContainsAny(NameGroups[g].patterns, Lower(all_fields[i].name))

\* the fields whose first matching group is g
ReachingFields(g) ==
    {i \in DOMAIN all_fields :
        /\ MatchesGroup(i, g)
        /\ \A h \in 1..(g - 1) : ~MatchesGroup(i, h)}

\* C22: the cardinality analyzer considers a field only for the first of the
\* groups event_index, category, week_label that its name matches; each role
\* keeps the first field, in field order, that reaches it, and a field
\* matching an event_index pattern is never the proposed category or
\* week_label, also when event_index is already filled by an earlier field.
C22_FirstGroupOnly ==
    pc \notin {"schema", "cardinality"} =>
        /\ \A g \in DOMAIN NameGroups :
              IF ReachingFields(g) = {}
              THEN NameGroups[g].role \notin DOMAIN cardinality_roles
              ELSE /\ NameGroups[g].role \in DOMAIN cardinality_roles
                   /\ cardinality_roles[NameGroups[g].role]
                        = all_fields[Min(ReachingFields(g))].name
        /\ \A i \in DOMAIN all_fields : \A r \in {"category", "week_label"} :
              MatchesGroup(i, 1) /\ r \in DOMAIN cardinality_roles
                  => cardinality_roles[r] # all_fields[i].name

\* C22: a second field matching the event_index patterns also matches the
\* category patterns; event_index keeps the earlier field and category is a
\* third field.
C22_Witness ==
    /\ pc \notin {"schema", "cardinality"}
    /\ \E i \in DOMAIN all_fields :
          /\ MatchesGroup(i, 1) /\ MatchesGroup(i, 2)
          /\ Min(ReachingFields(1)) < i
          /\ "category" \in DOMAIN cardinality_roles
          /\ cardinality_roles["category"] # all_fields[i].name
          /\ cardinality_roles["event_index"] # all_fields[i].name

-----------------------------------------------------------------------------
(* Properties of the steps of _apply_fallback_logic, under SpecFallbackSteps *)

\* the role is in the dict r with a non-empty value
Filled(r, role) == role \in DOMAIN r /\ r[role] # <<>>

\* the values of the filled roles of the dict r
FilledValues(r) == {r[role] : role \in {x \in DOMAIN r : r[x] # <<>>}}

\* steps 1 to 3: where the step starts, the role it fills, its patterns
PatternSteps ==
    << [at |-> "fb_date", role |-> "date", patterns |-> FallbackDatePatterns],
       [at |-> "fb_index", role |-> "event_index",
        patterns |-> FallbackIndexPatterns],
       [at |-> "fb_week", role |-> "week_label",
        patterns |-> FallbackWeekPatterns] >>

\* the positions of the fields whose name holds one of the patterns and that
\* are not the value of a filled role of r
FreeMatching(r, patterns) ==
    {i \in DOMAIN all_fields :
        /\ ContainsAny(patterns, Lower(all_fields[i].name))
        /\ all_fields[i].name \notin FilledValues(r)}

\* the roles among date, event_index, week_label that the steps have filled
NewlyFilled ==
    {r \in {"date", "event_index", "week_label"} :
        Unfilled(roles_in, r) /\ Filled(roles, r)}

\* what step k does to the assignment
PatternStepEffect(k) ==
    LET role == PatternSteps[k].role
        free == FreeMatching(roles, PatternSteps[k].patterns)
    IN  IF Unfilled(roles, role) /\ free # {}
        THEN /\ roles' = Put(roles, role, all_fields[Min(free)].name)
             /\ all_fields[Min(free)].name \in used_fields'
        ELSE roles' = roles

\* C23: each of the steps 1 to 3 gives its role, when unfilled, the first
\* field in field order whose name holds one of the step's patterns and that
\* is not the value of a filled role, and marks it used; otherwise it changes
\* nothing. After the three steps, the fields they assigned differ from each
\* other and from every value the partial assignment came with.
C23_PatternSteps ==
    /\ [][\A k \in DOMAIN PatternSteps :
            pc = PatternSteps[k].at => PatternStepEffect(k)]_vars
    /\ [](pc = "fb_category" =>
            \A r \in NewlyFilled :
                /\ roles[r] \notin FilledValues(roles_in)
                /\ \A q \in NewlyFilled \ {r} : roles[q] # roles[r])

\* C23: after the three steps, date was given a field that also holds an
\* index pattern, event_index was given a later field, and week_label stays
\* unfilled because the only field with a week pattern is already taken.
C23_Witness ==
    /\ pc = "fb_category"
    /\ {"date", "event_index"} \subseteq NewlyFilled
    /\ \E i, j \in DOMAIN all_fields :
          /\ i < j
          /\ roles["date"] = all_fields[i].name
          /\ ContainsAny(FallbackIndexPatterns, Lower(all_fields[i].name))
          /\ roles["event_index"] = all_fields[j].name
    /\ Unfilled(roles, "week_label")
    /\ \E i \in DOMAIN all_fields :
          /\ ContainsAny(FallbackWeekPatterns, Lower(all_fields[i].name))
          /\ all_fields[i].name \in FilledValues(roles)

\* the positions of the fields that are not the value of a filled role
FreeFields == {i \in DOMAIN all_fields :
                  all_fields[i].name \notin FilledValues(roles)}

\* C24: step 4 gives an unfilled category the first field in field order
\* that is not the value of a filled role, whatever its name; when there is
\* no such field it changes nothing, the reuse steps leave category
\* unfilled, and the ultimate fallback gives it the first field.
C24_CategoryStep ==
    /\ [][pc = "fb_category" =>
            IF Unfilled(roles, "category") /\ FreeFields # {}
            THEN roles' = Put(roles, "category",
                              all_fields[Min(FreeFields)].name)
            ELSE roles' = roles]_vars
    /\ [][(pc \in {"fb_legend", "fb_measure", "fb_group"}
             /\ Unfilled(roles, "category"))
            => Unfilled(roles', "category")]_vars
    /\ [][(pc = "fb_ultimate" /\ Unfilled(roles, "category")
             /\ all_fields # <<>>)
            => roles'["category"] = all_fields[1].name]_vars

\* C24: category was given a field that is not the first, the earlier
\* fields being values of other roles, and whose name holds no pattern of
\* any step.
C24_Witness ==
    /\ pc = "fb_legend"
    /\ Unfilled(roles_in, "category")
    /\ \E i \in DOMAIN all_fields :
          /\ i > 1
          /\ roles["category"] = all_fields[i].name
          /\ \A k \in DOMAIN PatternSteps :
                ~ContainsAny(PatternSteps[k].patterns,
                             Lower(all_fields[i].name))
          /\ \A j \in 1..(i - 1) :
                \E r \in DOMAIN roles \ {"category"} :
                    roles[r] = all_fields[j].name

\* the reuse steps 5 to 7: where the step starts, the role it fills, the
\* roles whose value it may reuse, in order of preference
ReuseSteps ==
    << [at |-> "fb_legend", role |-> "legend",
        from |-> <<"week_label", "category">>],
       [at |-> "fb_measure", role |-> "measure", from |-> <<"event_index">>],
       [at |-> "fb_group", role |-> "event_group", from |-> <<"date">>] >>

\* the positions in `from` of the roles filled in the assignment
FilledSources(from) == {i \in DOMAIN from : Filled(roles, from[i])}

\* what reuse step k does to the assignment
ReuseStepEffect(k) ==
    LET role == ReuseSteps[k].role
        from == ReuseSteps[k].from
    IN  /\ \A r \in DOMAIN roles : r # role => roles'[r] = roles[r]
        /\ DOMAIN roles' \subseteq DOMAIN roles \cup {role}
        /\ IF Filled(roles, role)
           THEN roles'[role] = roles[role]
           ELSE IF FilledSources(from) # {}
           THEN roles'[role] = roles[from[Min(FilledSources(from))]]
           ELSE Unfilled(roles', role)

C26_UltimateFirstField ==
    [][(pc = "fb_ultimate" /\ all_fields # <<>>) =>
          \A r \in RoleNames :
              roles'[r] = IF Unfilled(roles, r) THEN all_fields[1].name
                          ELSE roles[r]]_vars

\* C26: week_label, not preset, holds the first field although that field has
\* no week pattern in its name and came in as the value of another role.
C26_Witness ==
    /\ pc = "project" /\ all_fields # <<>>
    /\ Unfilled(roles_in, "week_label")
    /\ roles["week_label"] = all_fields[1].name
    /\ ~ContainsAny(FallbackWeekPatterns, Lower(all_fields[1].name))
    /\ all_fields[1].name \in FilledValues(roles_in)

\* C27: every role that comes to _apply_fallback_logic with a non-empty
\* value has that same value at every step and in the result.
C27_PresetRolesKept ==
    pc \in {"fb_date", "fb_index", "fb_week", "fb_category", "fb_legend",
            "fb_measure", "fb_group", "fb_ultimate", "project"} =>
        \A r \in DOMAIN roles_in :
            roles_in[r] # <<>> => r \in DOMAIN roles /\ roles[r] = roles_in[r]

\* C27: legend and week_label came in with two different fields and the
\* result still holds both, while other roles were completed.
C27_Witness ==
    /\ pc = "project"
    /\ Filled(roles_in, "legend") /\ Filled(roles_in, "week_label")
    /\ roles_in["legend"] # roles_in["week_label"]
    /\ roles["legend"] = roles_in["legend"]
    /\ roles["week_label"] = roles_in["week_label"]
    /\ DOMAIN roles # DOMAIN roles_in

-----------------------------------------------------------------------------
(* The exact match of smart_match_chart, under SpecMatch *)

\* the visuals with a string title or source whose normalized form is that
\* of the target
EqualVisuals ==
    {i \in DOMAIN available_visuals :
        \E a \in {1, 2} :
            /\ Candidates(available_visuals[i])[a].t = "str"
            /\ norm(Candidates(available_visuals[i])[a]) = norm(target_name)}

\* the visuals with a non-empty title or source whose normalized form is
\* that of the target
ExactVisuals ==
    {i \in DOMAIN available_visuals :
        \E a \in {1, 2} :
            /\ Truthy(Candidates(available_visuals[i])[a])
            /\ norm(Candidates(available_visuals[i])[a]) = norm(target_name)}

\* C30, as stated: if some visual of the pool has a title or source whose
\* normalized form equals the normalized target, smart_match_chart returns
\* the first such visual in pool order.
C30_FirstEqualReturned ==
    (mpc = "done" /\ target_name.t = "str" /\ EqualVisuals # {})
        => match_result = Min(EqualVisuals)

\* C30, amended: if the target is a non-empty string and some visual has a
\* non-empty title or source whose normalized form equals the normalized
\* target, smart_match_chart returns the first such visual in pool order,
\* with the score 100; every attribute that scores 100 or more is such an
\* exact match.
C30_FirstExactReturned ==
    mpc = "done" =>
        /\ (Truthy(target_name) /\ ExactVisuals # {})
              => (match_result = Min(ExactVisuals) /\ best_score = 100)
        /\ \A q \in Processed : ScoreAt(q) >= 100 => NormAt(q) = target_norm

\* C30: the second visual of the pool is the exact match and is returned,
\* the first having scored by containment.
C30_Witness ==
    /\ mpc = "done"
    /\ Truthy(target_name)
    /\ ExactVisuals = {2}
    /\ \E a \in {1, 2} :
          /\ <<1, a>> \in Processed
          /\ ScoreAt(<<1, a>>) >= Threshold
          /\ NormAt(<<1, a>>) # target_norm
          /\ Contains(target_norm, NormAt(<<1, a>>))
    /\ match_result = 2

-----------------------------------------------------------------------------
(* Properties of create_powerbi_report, under SpecReport *)

\* the chart references of entry k that smart_match_chart matches
MatchedCharts(k) ==
    {j \in DOMAIN bookmark_metadata[k].zone_charts :
        SmartMatchChart(Str(bookmark_metadata[k].zone_charts[j]),
                        visuals_data) # 0}

\* the names of the visuals matched by the references of entry k
MatchedNames(k) ==
    {visuals_data[SmartMatchChart(Str(bookmark_metadata[k].zone_charts[j]),
                                  visuals_data)].name : j \in MatchedCharts(k)}

\* the names of the visuals that bookmark k shows
Shown(k) ==
    {g \in DOMAIN bookmarks[k].visualContainers :
        bookmarks[k].visualContainers[g] = "shown"}

\* the names of the visuals of the page whose config parses
ParsedNames ==
    {visuals_data[i].name :
        i \in {j \in DOMAIN visuals_data : visuals_data[j].config = "object"}}

\* C28: create_powerbi_report runs to its end whatever chart reference is
\* unmatched; it makes one bookmark for every entry of bookmark_metadata, in
\* order and with the entry's name, also for an entry with an unmatched
\* reference; the bookmark shows the visuals matched by the entry's other
\* references and no other, and hides every other visual of the page.
C28_UnmatchedSkipped ==
    /\ rpc \in {"match", "bookmarks", "buttons", "done"}
    /\ rpc \in {"buttons", "done"} =>
          /\ Len(bookmarks) = Len(bookmark_metadata)
          /\ \A k \in DOMAIN bookmarks :
                /\ bookmarks[k].displayName
                      = bookmark_metadata[k].bookmark_name
                /\ Shown(k) = MatchedNames(k) \cap ParsedNames
                /\ DOMAIN bookmarks[k].visualContainers = ParsedNames

\* C28: the report is done; an entry names a chart that is matched and one
\* that is not, and its bookmark shows exactly the visual of the first.
C28_Witness ==
    /\ rpc = "done"
    /\ \E k \in DOMAIN bookmark_metadata :
          /\ MatchedCharts(k) # {}
          /\ MatchedCharts(k) # DOMAIN bookmark_metadata[k].zone_charts
          /\ Cardinality(Shown(k)) = 1
          /\ \E g \in DOMAIN bookmarks[k].visualContainers :
                bookmarks[k].visualContainers[g] = "hidden"

\* C29: the button made for each entry of bookmark_metadata links to the
\* GUID of the bookmark made for that entry, also when two entries have the
\* same bookmark name.
C29_ButtonLinksOwnBookmark ==
    rpc = "done" =>
        /\ Len(buttons) = Len(bookmark_metadata)
        /\ \A k \in DOMAIN buttons : buttons[k].bookmark = bookmarks[k].name

=============================================================================
